---- MODULE Spec2Model ----
(***************************************************************************)
(* Lifecycle state machines of the mentorship and volunteer modules:       *)
(* applications, matches, sessions, goals, assignments and the aggregate   *)
(* counters they maintain.  Each HTTP action / admin action is one action; *)
(* the concurrent specifications split a handler into its database reads   *)
(* and writes.                                                             *)
(***************************************************************************)
EXTENDS Integers, Sequences, FiniteSets, TLC

\* ------------------------------------------------------------------ bounds
MaxTime == 1
NumSessions == 2
SeqGoals == 1
MaxCount == 3
NumAssignments == 2
MaxPositions == 1
NumProcs == 2
MaxApps == 1
MaxLogs == 1
MaxSeats == 2
SeqAssignments == 1

\* --------------------------------------------------------------- constants
DefaultDuration == 1

\* ------------------------------------------------------------------- state
VARIABLES
    now,        \* timezone.now(), in hours
    last,       \* the request handled last and its response
    match,      \* the MentorshipMatch row
    session,    \* MentorshipSession rows of the match
    goal,       \* MentorshipGoal rows of the match
    roundtrip,  \* how far the match is through propose, accept, start, complete
    program,    \* the MentorshipProgram row
    opportunity,\* the VolunteerOpportunity row
    application,\* MentorshipApplication / VolunteerApplication rows, by applicant
    assignment, \* VolunteerAssignment rows of the opportunity
    proc,       \* requests being handled concurrently, with their local copies
    timelog,    \* VolunteerTimeLog rows, in the order of their creation
    programs,   \* the programs app: a Program, its applications and participants
    scope,      \* the view sets and admin pages this behaviour sends requests to
    event,      \* a published VolunteerEvent row
    partnership \* a PartnershipOpportunity row and the PartnerOrganization rows

vars == <<now, last, match, session, goal, roundtrip,
          program, opportunity, application, assignment, proc, timelog,
          programs, scope, event, partnership>>

\* what the mentorship match, session and goal actions leave alone
others == <<program, opportunity, application, assignment, proc, timelog,
            programs, scope, event, partnership>>
\* what the application and assignment actions leave alone
mentorship == <<match, session, goal, roundtrip>>
\* what only the volunteer time log and the programs app actions change
apart == <<timelog, programs, scope, event, partnership>>

Users == {"ann", "bob", "sam", "zed"}
is_staff(u) == u = "sam"

NULL == {}
At(t) == {t}
IsSet(x) == x # NULL
Val(x) == CHOOSE t \in x : TRUE

Sessions == 1..NumSessions
Goals == {1, 2}
Assignments == 1..NumAssignments
Procs == 1..NumProcs
Idle == [pc |-> "idle"]

MatchStatus == {"pending", "proposed", "accepted", "rejected", "active",
                "completed", "terminated"}
SessionStatus == {"scheduled", "confirmed", "in_progress", "completed",
                  "cancelled", "rescheduled"}
GoalStatus == {"not_started", "in_progress", "completed", "on_hold", "abandoned"}

Kinds == {"mentorship", "volunteer"}
MApplicationStatus == {"draft", "submitted", "under_review", "shortlisted",
                       "accepted", "rejected", "withdrawn"}
VApplicationStatus == MApplicationStatus \cup {"interviewing", "on_hold"}
ApplicationStatus(kind) ==
    IF kind = "mentorship" THEN MApplicationStatus ELSE VApplicationStatus
AssignmentStatus == {"pending", "active", "on_leave", "completed", "terminated",
                     "extended"}

\* a handled request: what was asked, by whom, with which payload, the HTTP
\* status of the response, the status label its error message names and what
\* became of the mail it sent, if it sent one ("none", "sent" or "failed")
RequestError(op, target, actor, arg, resp, detail) ==
    [op |-> op, target |-> target, actor |-> actor, arg |-> arg, resp |-> resp,
     detail |-> detail, mail |-> "none"]
Request(op, target, actor, arg, resp) ==
    RequestError(op, target, actor, arg, resp, "")

\* ------------------------------------------------------------------- Init
MentorshipMatch(mentor, mentee) ==
    [mentor |-> mentor, mentee |-> mentee, status |-> "pending",
     proposed_at |-> NULL, accepted_at |-> NULL, started_at |-> NULL,
     completed_at |-> NULL, meetings_held |-> 0, milestones_completed |-> 0]

MentorshipSession(status, actual_start) ==
    [status |-> status, actual_start |-> actual_start, actual_end |-> NULL]

MentorshipGoal ==
    [status |-> "not_started", progress_percentage |-> 0,
     start_date |-> NULL, completion_date |-> NULL]

\* a program whose application window is open today and closes tonight;
\* ann, the mentor of the match, is one of its mentors
MentorshipProgram ==
    [applications_count |-> 0, application_start |-> 0,
     application_deadline |-> 0, mentors |-> {"ann"}]

\* a published opportunity with no age requirement
VolunteerOpportunity(positions_available, positions_filled) ==
    [applications_count |-> 0, is_published |-> TRUE, status |-> "published",
     application_deadline |-> At(0),
     positions_available |-> positions_available,
     positions_filled |-> positions_filled]

\* an assignment of the opportunity, supervised by ann
VolunteerAssignment(applicant) ==
    [applicant |-> applicant, supervisor |-> "ann", status |-> "pending",
     actual_end_date |-> NULL, hours_logged |-> 0]

NoApplications == [k \in Kinds |-> [u \in Users |-> <<>>]]

\* programs/models.py: a Program with its capacity, the status of the
\* ProgramApplication of each user ("none" when there is no row), the users
\* that have a ProgramParticipant row and, among them, those whose row has no
\* application (ProgramParticipant.application is nullable)
Program(max_participants, applicants) ==
    [max_participants |-> max_participants,
     applications |-> [u \in Users |-> IF u \in applicants THEN "submitted"
                                       ELSE "none"],
     participants |-> {},
     direct |-> {}]

\* volunteer/models.py:450-456: a published event with its capacity (nullable),
\* its attendee counter and its registration settings
VolunteerEvent(max_attendees, current_attendees, required, deadline) ==
    [max_attendees |-> max_attendees, current_attendees |-> current_attendees,
     registration_required |-> required, registration_deadline |-> deadline]

\* partners/models.py:623-695: a PartnershipOpportunity assigned to ann, not
\* converted yet, and the PartnerOrganization rows that exist (each with its
\* unique slug and with where it came from)
Partnership(status, organizations) ==
    [opportunity |-> [status |-> status, assigned_to |-> "ann",
                      converted_partner |-> NULL],
     organizations |-> organizations]

\* the volunteer of each assignment: one assignment per application, one
\* application per (opportunity, applicant)
Volunteers == <<"bob", "zed", "ann", "sam">>

\* assignments that staff have activated, and their accepted applications
ActiveAssignments ==
    [a \in Assignments |->
        [VolunteerAssignment(Volunteers[a]) EXCEPT !.status = "active"]]
AcceptedApplications ==
    [NoApplications EXCEPT !["volunteer"] =
        [u \in Users |-> IF \E a \in Assignments : Volunteers[a] = u
                         THEN <<"accepted">> ELSE <<>>]]

\* no volunteer has been assigned yet
InitOthers ==
    /\ program = MentorshipProgram
    /\ opportunity = VolunteerOpportunity(1, 0)
    /\ application = NoApplications
    /\ assignment = <<>>
    /\ proc = [p \in Procs |-> Idle]
    /\ timelog = <<>>
    /\ programs = Program(NULL, {})
    /\ event = VolunteerEvent(NULL, 0, TRUE, NULL)
    /\ partnership = Partnership("identified", <<>>)

\* rows as their models' defaults create them; ann mentors bob, sam is staff
Init ==
    /\ now = 0
    /\ last = Request("none", 0, "none", 0, 0)
    /\ match = MentorshipMatch("ann", "bob")
    /\ session = [s \in Sessions |-> MentorshipSession("scheduled", NULL)]
    /\ goal = [g \in Goals |-> MentorshipGoal]
    /\ roundtrip = 0
    /\ InitOthers

\* the wall clock advances between requests
Tick ==
    /\ now < MaxTime
    /\ now' = now + 1
    /\ UNCHANGED <<last, match, session, goal, roundtrip, others>>

\* ------------------------------------------------------ mentorship sessions
\* MentorshipSessionViewSet.get_queryset: staff see every session, others the
\* sessions of matches they take part in; get_object answers 404 otherwise
SessionViewSet_get_queryset(actor) ==
    IF is_staff(actor) \/ match.mentor = actor \/ match.mentee = actor
    THEN Sessions ELSE {}

\* the mutant forgets that a completed session is closed
Session_closed_OnlyCancelled(st) == st = "cancelled"

\* views.py:485 and :516, `session.status in ['completed', 'cancelled']`
Session_closed(st) == st \in {"completed", "cancelled"}

\* the mutant leaves a missing actual_start missing
session_completed_NoBackfill(row) ==
    [status |-> "completed",
     actual_end |-> At(now),
     actual_start |-> row.actual_start]

\* the mutant misspells the status
session_completed_Misspelt(row) ==
    [status |-> "complete",
     actual_end |-> At(now),
     actual_start |-> IF ~IsSet(row.actual_start)
                      THEN At(now - DefaultDuration)
                      ELSE row.actual_start]

\* views.py:491-494
session_completed(row) ==
    [status |-> "completed",
     actual_end |-> At(now),
     actual_start |-> IF ~IsSet(row.actual_start)
                      THEN At(now - DefaultDuration)
                      ELSE row.actual_start]

Session_complete(s, actor) ==
    /\ UNCHANGED <<now, goal, roundtrip, others>>
    /\ IF s \notin SessionViewSet_get_queryset(actor)
       THEN /\ last' = Request("session_complete", s, actor, 0, 404)
            /\ UNCHANGED <<match, session>>
       ELSE IF match.mentor # actor /\ match.mentee # actor
       THEN /\ last' = Request("session_complete", s, actor, 0, 403)
            /\ UNCHANGED <<match, session>>
       ELSE IF Session_closed(session[s].status)
       THEN /\ last' = Request("session_complete", s, actor, 0, 400)
            /\ UNCHANGED <<match, session>>
       ELSE /\ session' = [session EXCEPT ![s] = session_completed(@)]
            /\ match' = [match EXCEPT !.meetings_held = @ + 1]
            /\ last' = Request("session_complete", s, actor, 0, 200)

Session_cancel(s, actor) ==
    /\ UNCHANGED <<now, goal, match, roundtrip, others>>
    /\ IF s \notin SessionViewSet_get_queryset(actor)
       THEN /\ last' = Request("session_cancel", s, actor, 0, 404)
            /\ UNCHANGED session
       ELSE IF match.mentor # actor /\ match.mentee # actor
       THEN /\ last' = Request("session_cancel", s, actor, 0, 403)
            /\ UNCHANGED session
       ELSE IF Session_closed(session[s].status)
       THEN /\ last' = Request("session_cancel", s, actor, 0, 400)
            /\ UNCHANGED session
       ELSE /\ session' = [session EXCEPT ![s].status = "cancelled"]
            /\ last' = Request("session_cancel", s, actor, 0, 200)

\* sessions exist in any declared status (the admin change list edits it),
\* with or without a recorded actual_start, before they are completed
InitSession ==
    /\ now = 0
    /\ last = Request("none", 0, "none", 0, 0)
    /\ match = MentorshipMatch("ann", "bob")
    /\ session \in [Sessions -> {MentorshipSession(st, a) :
                                   st \in SessionStatus, a \in {NULL, At(0)}}]
    /\ goal = [g \in Goals |-> MentorshipGoal]
    /\ roundtrip = 0
    /\ InitOthers
    /\ scope = "sessions"

NextSession ==
    \/ Tick
    \/ \E s \in Sessions, actor \in Users : Session_complete(s, actor)
    \/ \E s \in Sessions, actor \in Users : Session_cancel(s, actor)

SpecSession == InitSession /\ [][NextSession]_vars

\* --------------------------------------------------------- mentorship goals
\* request.data.get('progress_percentage'): absent, not a number, or a number
\* (whole percents; 1 stands for any value strictly between 0 and 100)
Missing == [k |-> "missing", v |-> 0]
NotANumber == [k |-> "text", v |-> 0]
Num(v) == [k |-> "num", v |-> v]
ProgressInputs == {Missing, NotANumber} \cup {Num(v) : v \in {-1, 0, 1, 100, 101}}

GoalViewSet_get_queryset(actor) ==
    IF is_staff(actor) \/ match.mentor = actor \/ match.mentee = actor
    THEN Goals ELSE {}

\* the mutant has no upper limit
progress_valid_NoUpper(data) == data.k = "num" /\ 0 <= data.v

\* views.py:631-646: None -> 400; float() fails or not 0 <= p <= 100 -> 400
progress_valid(data) == data.k = "num" /\ 0 <= data.v /\ data.v <= 100

\* views.py:662, `if goal.status == 'completed'` after the save
goal_counts_milestone(old, new) == new.status = "completed"

\* the mutant derives not_started from a progress of 0
goal_after_progress_Derived(g, progress) ==
    IF progress >= 100
    THEN [g EXCEPT !.progress_percentage = progress,
                   !.status = "completed", !.completion_date = At(now)]
    ELSE IF progress > 0
    THEN [g EXCEPT !.progress_percentage = progress,
                   !.status = "in_progress",
                   !.start_date = IF ~IsSet(@) THEN At(now) ELSE @]
    ELSE [g EXCEPT !.progress_percentage = progress, !.status = "not_started"]

\* views.py:648-657
goal_after_progress(g, progress) ==
    IF progress >= 100
    THEN [g EXCEPT !.progress_percentage = progress,
                   !.status = "completed", !.completion_date = At(now)]
    ELSE IF progress > 0
    THEN [g EXCEPT !.progress_percentage = progress,
                   !.status = "in_progress",
                   !.start_date = IF ~IsSet(@) THEN At(now) ELSE @]
    ELSE [g EXCEPT !.progress_percentage = progress]

Goal_update_progress(g, actor, data) ==
    /\ match.milestones_completed < MaxCount
    /\ UNCHANGED <<now, session, roundtrip, others>>
    /\ IF g \notin GoalViewSet_get_queryset(actor)
       THEN /\ last' = Request("update_progress", g, actor, data, 404)
            /\ UNCHANGED <<match, goal>>
       ELSE IF match.mentor # actor /\ match.mentee # actor
       THEN /\ last' = Request("update_progress", g, actor, data, 403)
            /\ UNCHANGED <<match, goal>>
       ELSE IF ~progress_valid(data)
       THEN /\ last' = Request("update_progress", g, actor, data, 400)
            /\ UNCHANGED <<match, goal>>
       ELSE /\ goal' = [goal EXCEPT ![g] = goal_after_progress(@, data.v)]
            /\ match' = IF goal_counts_milestone(goal[g], goal'[g])
                         THEN [match EXCEPT !.milestones_completed = @ + 1]
                         ELSE match
            /\ last' = Request("update_progress", g, actor, data, 200)

\* MentorshipGoalAdmin.list_editable: staff set the status column
GoalAdmin_list_editable(g, actor, st) ==
    /\ is_staff(actor)
    /\ goal' = [goal EXCEPT ![g].status = st]
    /\ last' = Request("goal_list_edit", g, actor, 0, 200)
    /\ UNCHANGED <<now, session, match, roundtrip, others>>

NextGoal ==
    \/ Tick
    \/ \E g \in 1..SeqGoals, actor \in Users, data \in ProgressInputs :
          Goal_update_progress(g, actor, data)
    \/ \E g \in 1..SeqGoals, actor \in Users, st \in GoalStatus :
          GoalAdmin_list_editable(g, actor, st)

InitGoal == Init /\ scope = "goals"
SpecGoal == InitGoal /\ [][NextGoal]_vars

\* -------------------------------------------------------- mentorship matches
\* MentorshipMatchViewSet.get_queryset: staff, the mentor and the mentee see
\* the match; get_object answers 404 to anyone else
MatchViewSet_get_queryset(actor) ==
    is_staff(actor) \/ match.mentor = actor \/ match.mentee = actor

\* the scenario propose, accept, start, complete: the number of its steps done
\* in order on the pending match, or -1 once another change intervened
Scenario == <<"propose_matches", "accept", "start", "complete_matches">>
Advance(op) ==
    IF roundtrip \in 0..3 /\ Scenario[roundtrip + 1] = op
    THEN roundtrip + 1 ELSE -1

\* MentorshipMatch.get_status_display(), models.py:188-195
MatchStatusDisplay(st) ==
    CASE st = "pending" -> "Pending"
      [] st = "proposed" -> "Proposed"
      [] st = "accepted" -> "Accepted"
      [] st = "rejected" -> "Rejected"
      [] st = "active" -> "Active"
      [] st = "completed" -> "Completed"
      [] st = "terminated" -> "Terminated"

\* the mutant lets the mentor accept as well
may_accept_MentorToo(actor) == match.mentee = actor \/ match.mentor = actor

\* views.py:331 and :358, `match.mentee != request.user` is refused
may_accept(actor) == match.mentee = actor

\* send_match_accepted_notification: send_mail(fail_silently=False) raises when
\* the mail transport fails, after the match was saved
Match_accept(actor, mail_ok) ==
    /\ UNCHANGED <<now, session, goal, others>>
    /\ IF ~MatchViewSet_get_queryset(actor)
       THEN /\ last' = Request("accept", 0, actor, 0, 404)
            /\ UNCHANGED <<match, roundtrip>>
       ELSE IF ~may_accept(actor)
       THEN /\ last' = Request("accept", 0, actor, 0, 403)
            /\ UNCHANGED <<match, roundtrip>>
       ELSE IF match.status # "proposed"
       THEN /\ last' = RequestError("accept", 0, actor, 0, 400,
                                    MatchStatusDisplay(match.status))
            /\ UNCHANGED <<match, roundtrip>>
       ELSE /\ match' = [match EXCEPT !.status = "accepted", !.accepted_at = At(now)]
            /\ roundtrip' = IF mail_ok THEN Advance("accept") ELSE -1
            /\ last' = IF mail_ok
                       THEN [Request("accept", 0, actor, 0, 200) EXCEPT !.mail = "sent"]
                       ELSE [Request("accept", 0, actor, 0, 500) EXCEPT !.mail = "failed"]

Match_reject(actor) ==
    /\ UNCHANGED <<now, session, goal, others>>
    /\ IF ~MatchViewSet_get_queryset(actor)
       THEN /\ last' = Request("reject", 0, actor, 0, 404)
            /\ UNCHANGED <<match, roundtrip>>
       ELSE IF ~may_accept(actor)
       THEN /\ last' = Request("reject", 0, actor, 0, 403)
            /\ UNCHANGED <<match, roundtrip>>
       ELSE IF match.status # "proposed"
       THEN /\ last' = RequestError("reject", 0, actor, 0, 400,
                                    MatchStatusDisplay(match.status))
            /\ UNCHANGED <<match, roundtrip>>
       ELSE /\ match' = [match EXCEPT !.status = "rejected"]
            /\ roundtrip' = Advance("reject")
            /\ last' = Request("reject", 0, actor, 0, 200)

Match_start(actor) ==
    /\ UNCHANGED <<now, session, goal, others>>
    /\ IF ~MatchViewSet_get_queryset(actor)
       THEN /\ last' = Request("start", 0, actor, 0, 404)
            /\ UNCHANGED <<match, roundtrip>>
       ELSE IF match.mentor # actor /\ match.mentee # actor
       THEN /\ last' = Request("start", 0, actor, 0, 403)
            /\ UNCHANGED <<match, roundtrip>>
       ELSE IF match.status # "accepted"
       THEN /\ last' = RequestError("start", 0, actor, 0, 400,
                                    MatchStatusDisplay(match.status))
            /\ UNCHANGED <<match, roundtrip>>
       ELSE /\ match' = [match EXCEPT !.status = "active", !.started_at = At(now)]
            /\ roundtrip' = Advance("start")
            /\ last' = Request("start", 0, actor, 0, 200)

\* admin.py:235-238, queryset.update on the selected match, whatever its status
propose_matches(actor) ==
    /\ is_staff(actor)
    /\ match' = [match EXCEPT !.status = "proposed", !.proposed_at = At(now)]
    /\ roundtrip' = Advance("propose_matches")
    /\ last' = Request("propose_matches", 0, actor, 0, 200)
    /\ UNCHANGED <<now, session, goal, others>>

\* admin.py:240-243
activate_matches(actor) ==
    /\ is_staff(actor)
    /\ match' = [match EXCEPT !.status = "active", !.started_at = At(now)]
    /\ roundtrip' = Advance("activate_matches")
    /\ last' = Request("activate_matches", 0, actor, 0, 200)
    /\ UNCHANGED <<now, session, goal, others>>

\* admin.py:233 lists 'complete_matches' among the actions but the class
\* defines no such method: ModelAdmin.get_action drops the name, the posted
\* action is not a valid choice and nothing is updated
complete_matches(actor) ==
    /\ is_staff(actor)
    /\ roundtrip' = Advance("complete_matches")
    /\ last' = Request("complete_matches", 0, actor, 0, 200)
    /\ UNCHANGED <<now, match, session, goal, others>>

\* MentorshipMatchAdmin.list_editable: staff set the status column
MatchAdmin_list_editable(actor, st) ==
    /\ is_staff(actor)
    /\ match' = [match EXCEPT !.status = st]
    /\ roundtrip' = -1
    /\ last' = Request("match_list_edit", 0, actor, 0, 200)
    /\ UNCHANGED <<now, session, goal, others>>

NextMatch ==
    \/ Tick
    \/ \E actor \in Users, mail_ok \in BOOLEAN : Match_accept(actor, mail_ok)
    \/ \E actor \in Users : Match_reject(actor)
    \/ \E actor \in Users : Match_start(actor)
    \/ \E actor \in Users : propose_matches(actor)
    \/ \E actor \in Users : activate_matches(actor)
    \/ \E actor \in Users : complete_matches(actor)
    \/ \E actor \in Users, st \in MatchStatus : MatchAdmin_list_editable(actor, st)

InitMatch == Init /\ scope = "matches"
SpecMatch == InitMatch /\ [][NextMatch]_vars

\* --------------------------------------------------------------- applications
\* get_status_display(): the label of a status value (models.py choices)
StatusDisplay(st) ==
    CASE st = "draft" -> "Draft"
      [] st = "submitted" -> "Submitted"
      [] st = "under_review" -> "Under Review"
      [] st = "shortlisted" -> "Shortlisted"
      [] st = "interviewing" -> "Interviewing"
      [] st = "accepted" -> "Accepted"
      [] st = "rejected" -> "Rejected"
      [] st = "withdrawn" -> "Withdrawn"
      [] st = "on_hold" -> "On Hold"

Rows(kind) == {u \in Users : application[kind][u] # <<>>}
TotalRows ==
    Cardinality(Rows("mentorship")) + Cardinality(Rows("volunteer"))

\* get_queryset of both application view sets: staff see every application,
\* others their own
ApplicationViewSet_get_queryset(kind, actor) ==
    {u \in Rows(kind) : is_staff(actor) \/ u = actor}

\* the mutant refuses only a second withdrawal
withdraw_refused_OnlyWithdrawn(st) == st = "withdrawn"

\* mentorship/views.py:296 and volunteer/views.py:356
withdraw_refused(st) == st \in {"accepted", "withdrawn"}

Application_withdraw(kind, owner, actor) ==
    LET op == IF kind = "mentorship" THEN "m_withdraw" ELSE "v_withdraw"
    IN
    /\ UNCHANGED <<apart, now, program, opportunity, assignment, proc, mentorship>>
    /\ IF owner \notin ApplicationViewSet_get_queryset(kind, actor)
       THEN /\ last' = Request(op, owner, actor, 0, 404)
            /\ UNCHANGED application
       ELSE IF owner # actor /\ ~is_staff(actor)
       THEN /\ last' = Request(op, owner, actor, 0, 403)
            /\ UNCHANGED application
       ELSE IF withdraw_refused(application[kind][owner][1])
       THEN /\ last' = RequestError(op, owner, actor, 0, 400,
                                    StatusDisplay(application[kind][owner][1]))
            /\ UNCHANGED application
       ELSE /\ application' = [application EXCEPT ![kind][owner][1] = "withdrawn"]
            /\ last' = Request(op, owner, actor, 0, 200)

MApplication_withdraw(owner, actor) == Application_withdraw("mentorship", owner, actor)
VApplication_withdraw(owner, actor) == Application_withdraw("volunteer", owner, actor)

\* Both application view sets are ModelViewSets (mentorship/views.py:230,
\* volunteer/views.py:280) and are registered with the router, so DELETE on an
\* application the actor can see deletes the row and answers 204.  The
\* assignment of a volunteer application and its time logs go with it
\* (on_delete=CASCADE, volunteer/models.py:259 and :313).
Application_destroy(kind, owner, actor) ==
    LET op == IF kind = "mentorship" THEN "m_destroy" ELSE "v_destroy"
        kept == {a \in DOMAIN assignment :
                    kind = "volunteer" => assignment[a].applicant # owner}
        keeps(row) == row.assignment \in kept
    IN
    /\ UNCHANGED <<now, program, opportunity, proc, mentorship, programs, scope, event, partnership>>
    /\ IF owner \notin ApplicationViewSet_get_queryset(kind, actor)
       THEN /\ last' = Request(op, owner, actor, 0, 404)
            /\ UNCHANGED <<application, assignment, timelog>>
       ELSE /\ application' = [application EXCEPT ![kind][owner] = <<>>]
            /\ assignment' = [a \in kept |-> assignment[a]]
            /\ timelog' = SelectSeq(timelog, keeps)
            /\ last' = Request(op, owner, actor, 0, 204)

\* MentorshipProgram.is_accepting_applications
Program_is_accepting_applications ==
    program.application_start <= now /\ now <= program.application_deadline

\* VolunteerOpportunity.is_accepting_applications
Opportunity_is_accepting_applications ==
    /\ opportunity.is_published /\ opportunity.status = "published"
    /\ ~(IsSet(opportunity.application_deadline)
          /\ Val(opportunity.application_deadline) < now)
    /\ ~(opportunity.positions_filled >= opportunity.positions_available)

\* MentorshipProgramViewSet.apply handled without interruption; data_ok is
\* serializer.is_valid(), mail_ok whether send_mail succeeds
Program_apply(user, data_ok, mail_ok) ==
    /\ \/ TotalRows < MaxApps /\ program.applications_count < MaxApps
       \/ user \in Rows("mentorship")
    /\ UNCHANGED <<apart, now, opportunity, assignment, proc, mentorship>>
    /\ IF \/ ~Program_is_accepting_applications
          \/ user \in Rows("mentorship")
          \/ user \in program.mentors
          \/ ~data_ok
       THEN /\ last' = Request("m_apply", user, user, 0, 400)
            /\ UNCHANGED <<program, application>>
       ELSE /\ application' = [application EXCEPT !["mentorship"][user] = <<"draft">>]
            /\ IF mail_ok
               THEN /\ program' = [program EXCEPT !.applications_count = @ + 1]
                    /\ last' = [Request("m_apply", user, user, 0, 201)
                                   EXCEPT !.mail = "sent"]
               ELSE /\ UNCHANGED program
                    /\ last' = [Request("m_apply", user, user, 0, 500)
                                   EXCEPT !.mail = "failed"]

\* VolunteerOpportunityViewSet.apply handled without interruption
Opportunity_apply(user, data_ok, mail_ok) ==
    /\ \/ TotalRows < MaxApps /\ opportunity.applications_count < MaxApps
       \/ user \in Rows("volunteer")
    /\ UNCHANGED <<apart, now, program, assignment, proc, mentorship>>
    /\ IF \/ ~Opportunity_is_accepting_applications
          \/ user \in Rows("volunteer")
          \/ ~data_ok
       THEN /\ last' = Request("v_apply", user, user, 0, 400)
            /\ UNCHANGED <<opportunity, application>>
       ELSE /\ application' = [application EXCEPT !["volunteer"][user] = <<"draft">>]
            /\ IF mail_ok
               THEN /\ opportunity' = [opportunity EXCEPT !.applications_count = @ + 1]
                    /\ last' = [Request("v_apply", user, user, 0, 201)
                                   EXCEPT !.mail = "sent"]
               ELSE /\ UNCHANGED opportunity
                    /\ last' = [Request("v_apply", user, user, 0, 500)
                                   EXCEPT !.mail = "failed"]

\* mentorship/admin.py:168-170 and volunteer/admin.py:189-191,
\* queryset.update(status='shortlisted') on the selected rows
shortlist_applications(kind, actor, selected) ==
    /\ is_staff(actor)
    /\ application' = [application EXCEPT ![kind] =
           [u \in Users |-> IF u \in selected
                            THEN [i \in DOMAIN @[u] |-> "shortlisted"]
                            ELSE @[u]]]
    /\ last' = Request("shortlist_applications", 0, actor, 0, 200)
    /\ UNCHANGED <<apart, now, program, opportunity, assignment, proc, mentorship>>

\* list_editable = ('status',) of both application admins
ApplicationAdmin_list_editable(kind, actor, owner, st) ==
    /\ is_staff(actor)
    /\ owner \in Rows(kind)
    /\ application' = [application EXCEPT ![kind][owner][1] = st]
    /\ last' = Request("application_list_edit", owner, actor, 0, 200)
    /\ UNCHANGED <<apart, now, program, opportunity, assignment, proc, mentorship>>

NextApp ==
    \/ Tick
    \/ \E owner \in Users, actor \in Users : MApplication_withdraw(owner, actor)
    \/ \E owner \in Users, actor \in Users : VApplication_withdraw(owner, actor)
    \/ \E user \in Users, data_ok \in BOOLEAN, mail_ok \in BOOLEAN :
          Program_apply(user, data_ok, mail_ok)
    \/ \E user \in Users, data_ok \in BOOLEAN, mail_ok \in BOOLEAN :
          Opportunity_apply(user, data_ok, mail_ok)
    \/ \E kind \in Kinds, actor \in Users :
          \E selected \in SUBSET Rows(kind) \ {{}} :
             shortlist_applications(kind, actor, selected)
    \/ \E kind \in Kinds, actor \in Users, owner \in Users :
          \E st \in ApplicationStatus(kind) :
             ApplicationAdmin_list_editable(kind, actor, owner, st)

InitApp == Init /\ scope = "applications"
SpecApp == InitApp /\ [][NextApp]_vars

\* POST to the application endpoint, perform_create of both application view
\* sets: the row is saved for request.user and the coordinator or supervisor
\* is mailed; the parent's applications_count is not touched.  A second row
\* for the same (parent, applicant) is refused by unique_together, by the
\* serializer (400) or by the database (500).
Application_create(kind, actor, data_ok, mail_ok, refusal) ==
    LET op == IF kind = "mentorship" THEN "m_create" ELSE "v_create"
    IN
    /\ TotalRows < MaxApps \/ actor \in Rows(kind)
    /\ UNCHANGED <<apart, now, program, opportunity, assignment, proc, mentorship>>
    /\ IF ~data_ok
       THEN /\ last' = Request(op, actor, actor, 0, 400)
            /\ UNCHANGED application
       ELSE IF actor \in Rows(kind)
       THEN /\ last' = Request(op, actor, actor, 0, refusal)
            /\ UNCHANGED application
       ELSE /\ application' = [application EXCEPT ![kind][actor] = <<"draft">>]
            /\ last' = IF mail_ok
                       THEN [Request(op, actor, actor, 0, 201) EXCEPT !.mail = "sent"]
                       ELSE [Request(op, actor, actor, 0, 500) EXCEPT !.mail = "failed"]

\* the lifecycle actions together with the generic POST and DELETE of the view
\* sets
NextAppCrud ==
    \/ NextApp
    \/ \E kind \in Kinds, actor \in Users, data_ok \in BOOLEAN, mail_ok \in BOOLEAN,
          refusal \in {400, 500} :
          Application_create(kind, actor, data_ok, mail_ok, refusal)
    \/ \E kind \in Kinds, owner \in Users, actor \in Users :
          Application_destroy(kind, owner, actor)

InitAppCrud == Init /\ scope = "applications, with DELETE"
SpecAppCrud == InitAppCrud /\ [][NextAppCrud]_vars

\* ------------------------------------------- volunteer assignments, time logs
\* --- VolunteerAssignmentViewSet.complete
\* volunteer/views.py:393-401
AssignmentViewSet_get_queryset(actor) ==
    {a \in DOMAIN assignment : \/ is_staff(actor)
                         \/ assignment[a].applicant = actor
                         \/ assignment[a].supervisor = actor}

\* the mutant drops the cap
positions_after_complete_Uncapped(opp) == opp.positions_filled + 1

\* volunteer/views.py:481-484
positions_after_complete(opp) ==
    IF opp.positions_filled + 1 <= opp.positions_available
    THEN opp.positions_filled + 1 ELSE opp.positions_available

LogStatus == {"pending", "approved", "rejected", "adjusted"}
TimeLogs == DOMAIN timelog

\* get_status_display() of VolunteerAssignment and VolunteerTimeLog
AssignmentStatusDisplay(st) ==
    CASE st = "pending" -> "Pending Start"
      [] st = "active" -> "Active"
      [] st = "on_leave" -> "On Leave"
      [] st = "completed" -> "Completed"
      [] st = "terminated" -> "Terminated"
      [] st = "extended" -> "Extended"
LogStatusDisplay(st) ==
    CASE st = "pending" -> "Pending Approval"
      [] st = "approved" -> "Approved"
      [] st = "rejected" -> "Rejected"
      [] st = "adjusted" -> "Adjusted"

\* a time log as log_time creates it
VolunteerTimeLog(a, volunteer, total_hours) ==
    [assignment |-> a, volunteer |-> volunteer, total_hours |-> total_hours,
     status |-> "pending", approved_by |-> "none", approved_at |-> NULL]

\* total_hours is a FloatField: the model counts it in half hours, and a
\* time log claims half an hour or one hour
LogHours == {1, 2}

\* hours_logged is a PositiveIntegerField: IntegerField.get_prep_value stores
\* int(value), which drops the fraction of the float (towards zero)
IntegerField_prep(halves) ==
    IF halves >= 0 THEN halves \div 2 ELSE -((-halves) \div 2)

\* volunteer/views.py:421-455
Assignment_log_time(a, actor, data_ok, hours) ==
    /\ UNCHANGED <<now, mentorship, program, opportunity, application, proc,
                   programs, scope, event, partnership>>
    /\ IF a \notin AssignmentViewSet_get_queryset(actor)
       THEN /\ last' = Request("log_time", a, actor, hours, 404)
            /\ UNCHANGED <<assignment, timelog>>
       ELSE IF assignment[a].applicant # actor
       THEN /\ last' = Request("log_time", a, actor, hours, 403)
            /\ UNCHANGED <<assignment, timelog>>
       ELSE IF assignment[a].status # "active"
       THEN /\ last' = RequestError("log_time", a, actor, hours, 400,
                                    AssignmentStatusDisplay(assignment[a].status))
            /\ UNCHANGED <<assignment, timelog>>
       ELSE IF ~data_ok
       THEN /\ last' = Request("log_time", a, actor, hours, 400)
            /\ UNCHANGED <<assignment, timelog>>
       ELSE /\ Len(timelog) < MaxLogs
            /\ timelog' = Append(timelog, VolunteerTimeLog(a, actor, hours))
            /\ assignment' = [assignment EXCEPT ![a].hours_logged =
                                  IntegerField_prep(2 * @ + hours)]
            /\ last' = Request("log_time", a, actor, hours, 201)

\* volunteer/views.py:457-487 handled without interruption
\* the mutant lets the assigned volunteer complete the assignment
may_complete_VolunteerToo(a, actor) ==
    \/ assignment[a].supervisor = actor \/ is_staff(actor)
    \/ assignment[a].applicant = actor

\* volunteer/views.py:463, supervisor or staff
may_complete(a, actor) == assignment[a].supervisor = actor \/ is_staff(actor)

Assignment_complete(a, actor) ==
    /\ UNCHANGED <<apart, now, mentorship, program, application, proc>>
    /\ IF a \notin AssignmentViewSet_get_queryset(actor)
       THEN /\ last' = Request("assignment_complete", a, actor, 0, 404)
            /\ UNCHANGED <<assignment, opportunity>>
       ELSE IF ~may_complete(a, actor)
       THEN /\ last' = Request("assignment_complete", a, actor, 0, 403)
            /\ UNCHANGED <<assignment, opportunity>>
       ELSE IF assignment[a].status # "active"
       THEN /\ last' = RequestError("assignment_complete", a, actor, 0, 400,
                                    AssignmentStatusDisplay(assignment[a].status))
            /\ UNCHANGED <<assignment, opportunity>>
       ELSE /\ assignment' = [assignment EXCEPT ![a].status = "completed",
                                                ![a].actual_end_date = At(now)]
            /\ opportunity' = [opportunity EXCEPT !.positions_filled =
                                  positions_after_complete(opportunity)]
            /\ last' = Request("assignment_complete", a, actor, 0, 200)

\* volunteer/views.py:497-505
TimeLogViewSet_get_queryset(actor) ==
    {t \in TimeLogs : \/ is_staff(actor)
                      \/ timelog[t].volunteer = actor
                      \/ assignment[timelog[t].assignment].supervisor = actor}

\* the mutant lets the volunteer review their own time log
may_review_VolunteerToo(t, actor) ==
    \/ assignment[timelog[t].assignment].supervisor = actor
    \/ is_staff(actor)
    \/ timelog[t].volunteer = actor

\* volunteer/views.py:511 and :537, the supervisor of the assignment or staff
may_review(t, actor) ==
    assignment[timelog[t].assignment].supervisor = actor \/ is_staff(actor)

\* volunteer/views.py:507-530
TimeLog_approve(t, actor) ==
    /\ UNCHANGED <<now, mentorship, program, opportunity, application,
                   assignment, proc, programs, scope, event, partnership>>
    /\ IF t \notin TimeLogViewSet_get_queryset(actor)
       THEN /\ last' = Request("timelog_approve", t, actor, 0, 404)
            /\ UNCHANGED timelog
       ELSE IF ~may_review(t, actor)
       THEN /\ last' = Request("timelog_approve", t, actor, 0, 403)
            /\ UNCHANGED timelog
       ELSE IF timelog[t].status # "pending"
       THEN /\ last' = RequestError("timelog_approve", t, actor, 0, 400,
                                    LogStatusDisplay(timelog[t].status))
            /\ UNCHANGED timelog
       ELSE /\ timelog' = [timelog EXCEPT ![t].status = "approved",
                                          ![t].approved_by = actor,
                                          ![t].approved_at = At(now)]
            /\ last' = Request("timelog_approve", t, actor, 0, 200)

\* volunteer/views.py:532-567; hours_logged is a PositiveIntegerField, so the
\* database refuses a negative value and the request fails after the time log
\* was saved
TimeLog_reject(t, actor, reason) ==
    /\ UNCHANGED <<now, mentorship, program, opportunity, application, proc,
                   programs, scope, event, partnership>>
    /\ IF t \notin TimeLogViewSet_get_queryset(actor)
       THEN /\ last' = Request("timelog_reject", t, actor, reason, 404)
            /\ UNCHANGED <<timelog, assignment>>
       ELSE IF ~may_review(t, actor)
       THEN /\ last' = Request("timelog_reject", t, actor, reason, 403)
            /\ UNCHANGED <<timelog, assignment>>
       ELSE IF timelog[t].status # "pending"
       THEN /\ last' = RequestError("timelog_reject", t, actor, reason, 400,
                                    LogStatusDisplay(timelog[t].status))
            /\ UNCHANGED <<timelog, assignment>>
       ELSE IF ~reason
       THEN /\ last' = Request("timelog_reject", t, actor, reason, 400)
            /\ UNCHANGED <<timelog, assignment>>
       ELSE LET a == timelog[t].assignment
                hours == IntegerField_prep(2 * assignment[a].hours_logged
                                           - timelog[t].total_hours)
            IN /\ timelog' = [timelog EXCEPT ![t].status = "rejected",
                                             ![t].approved_by = actor,
                                             ![t].approved_at = At(now)]
               /\ IF hours >= 0
                  THEN /\ assignment' = [assignment EXCEPT ![a].hours_logged = hours]
                       /\ last' = Request("timelog_reject", t, actor, reason, 200)
                  ELSE /\ UNCHANGED assignment
                       /\ last' = Request("timelog_reject", t, actor, reason, 500)

\* volunteer/admin.py:296-302, queryset.update on the selected time logs
approve_time_logs(actor, selected) ==
    /\ is_staff(actor)
    /\ timelog' = [t \in TimeLogs |->
                     IF t \in selected
                     THEN [timelog[t] EXCEPT !.status = "approved",
                                             !.approved_by = actor,
                                             !.approved_at = At(now)]
                     ELSE timelog[t]]
    /\ last' = Request("approve_time_logs", 0, actor, 0, 200)
    /\ UNCHANGED <<now, mentorship, program, opportunity, application,
                   assignment, proc, programs, scope, event, partnership>>

\* volunteer/admin.py:262, list_editable = ('status',)
TimeLogAdmin_list_editable(t, actor, st) ==
    /\ is_staff(actor)
    /\ timelog' = [timelog EXCEPT ![t].status = st]
    /\ last' = Request("timelog_list_edit", t, actor, 0, 200)
    /\ UNCHANGED <<now, mentorship, program, opportunity, application,
                   assignment, proc, programs, scope, event, partnership>>

NextAssign ==
    \/ Tick
    \/ \E a \in 1..SeqAssignments, actor \in Users, data_ok \in BOOLEAN,
          hours \in LogHours :
          Assignment_log_time(a, actor, data_ok, hours)
    \/ \E a \in 1..SeqAssignments, actor \in Users : Assignment_complete(a, actor)
    \/ \E t \in TimeLogs, actor \in Users : TimeLog_approve(t, actor)
    \/ \E t \in TimeLogs, actor \in Users, reason \in BOOLEAN :
          TimeLog_reject(t, actor, reason)
    \/ \E actor \in Users : \E selected \in SUBSET TimeLogs \ {{}} :
          approve_time_logs(actor, selected)
    \/ \E t \in TimeLogs, actor \in Users, st \in LogStatus :
          TimeLogAdmin_list_editable(t, actor, st)

\* active assignments of an opportunity that still has a position to fill
InitAssign ==
    /\ now = 0
    /\ last = Request("none", 0, "none", 0, 0)
    /\ match = MentorshipMatch("ann", "bob")
    /\ session = [s \in Sessions |-> MentorshipSession("scheduled", NULL)]
    /\ goal = [g \in Goals |-> MentorshipGoal]
    /\ roundtrip = 0
    /\ program = MentorshipProgram
    /\ opportunity = VolunteerOpportunity(1, 0)
    /\ application = AcceptedApplications
    /\ assignment = ActiveAssignments
    /\ proc = [p \in Procs |-> Idle]
    /\ timelog = <<>>
    /\ programs = Program(NULL, {})
    /\ event = VolunteerEvent(NULL, 0, TRUE, NULL)
    /\ partnership = Partnership("identified", <<>>)
    /\ scope = "assignments"

SpecAssign == InitAssign /\ [][NextAssign]_vars

\* --------------------------------------------------------------- programs app
\* the users that have a ProgramApplication
Applicants == {u \in Users : programs.applications[u] # "none"}

\* programs/admin.py:183-186
ProgramApplicationAdmin_shortlist_applications(actor, selected) ==
    /\ is_staff(actor)
    /\ programs' = [programs EXCEPT !.applications =
           [u \in Users |-> IF u \in selected THEN "shortlisted" ELSE @[u]]]
    /\ last' = Request("p_shortlist_applications", 0, actor, 0, 200)
    /\ UNCHANGED <<now, mentorship, program, opportunity, application,
                   assignment, proc, timelog, scope, event, partnership>>

\* programs/admin.py:188-199: every selected application becomes accepted,
\* then get_or_create(program, user, application) runs for one application
\* after the other; max_participants is not consulted.  A participant row of
\* the same user that is linked to the application is found; one without
\* application is not found, the insert then breaks unique_together
\* (program, user) and the action ends in an error (500), the applications
\* handled before it (done) having got their participant.
accept_applications(actor, selected, done) ==
    /\ is_staff(actor)
    /\ done \subseteq selected \ programs.direct
    /\ selected \cap programs.direct = {} => done = selected
    /\ programs' = [programs EXCEPT
           !.applications = [u \in Users |-> IF u \in selected THEN "accepted"
                                             ELSE @[u]],
           !.participants = @ \cup done]
    /\ last' = Request("accept_applications", 0, actor, selected,
                       IF selected \cap programs.direct = {} THEN 200 ELSE 500)
    /\ UNCHANGED <<now, mentorship, program, opportunity, application,
                   assignment, proc, timelog, scope, event, partnership>>

\* programs/admin.py:221, staff add a ProgramParticipant row by hand, without
\* an application; the form refuses a second row for (program, user)
ParticipantAdmin_add(actor, user) ==
    /\ is_staff(actor)
    /\ user \notin programs.participants
    /\ programs' = [programs EXCEPT !.participants = @ \cup {user},
                                    !.direct = @ \cup {user}]
    /\ last' = Request("participant_add", user, actor, 0, 200)
    /\ UNCHANGED <<now, mentorship, program, opportunity, application,
                   assignment, proc, timelog, scope, event, partnership>>

\* programs/admin.py:181 lists 'reject_applications', which is not defined:
\* choosing it changes nothing
reject_applications(actor) ==
    /\ is_staff(actor)
    /\ last' = Request("reject_applications", 0, actor, 0, 200)
    /\ UNCHANGED <<apart, now, mentorship, program, opportunity, application,
                   assignment, proc>>

\* programs/admin.py:143, list_editable = ('status',)
ProgramApplicationAdmin_list_editable(actor, owner, st) ==
    /\ is_staff(actor)
    /\ owner \in Applicants
    /\ programs' = [programs EXCEPT !.applications[owner] = st]
    /\ last' = Request("p_application_list_edit", owner, actor, 0, 200)
    /\ UNCHANGED <<now, mentorship, program, opportunity, application,
                   assignment, proc, timelog, scope, event, partnership>>

\* a program with or without a capacity, and the applications submitted to it
InitProgram ==
    /\ now = 0
    /\ last = Request("none", 0, "none", 0, 0)
    /\ match = MentorshipMatch("ann", "bob")
    /\ session = [s \in Sessions |-> MentorshipSession("scheduled", NULL)]
    /\ goal = [g \in Goals |-> MentorshipGoal]
    /\ roundtrip = 0
    /\ program = MentorshipProgram
    /\ opportunity = VolunteerOpportunity(1, 0)
    /\ application = NoApplications
    /\ assignment = <<>>
    /\ proc = [p \in Procs |-> Idle]
    /\ timelog = <<>>
    /\ \E max \in {NULL} \cup {At(k) : k \in 1..MaxPositions},
          applicants \in SUBSET {"bob", "zed"} :
          programs = Program(max, applicants)
    /\ event = VolunteerEvent(NULL, 0, TRUE, NULL)
    /\ partnership = Partnership("identified", <<>>)
    /\ scope = "programs"

NextProgram ==
    \/ Tick
    \/ \E actor \in Users : \E selected \in SUBSET Applicants \ {{}} :
          ProgramApplicationAdmin_shortlist_applications(actor, selected)
    \/ \E actor \in Users : \E selected \in SUBSET Applicants \ {{}} :
          \E done \in SUBSET selected : accept_applications(actor, selected, done)
    \/ \E actor \in Users, user \in {"bob", "zed"} :
          ParticipantAdmin_add(actor, user)
    \/ \E actor \in Users : reject_applications(actor)
    \/ \E actor \in Users, owner \in Users, st \in MApplicationStatus :
          ProgramApplicationAdmin_list_editable(actor, owner, st)

SpecProgram == InitProgram /\ [][NextProgram]_vars

\* ------------------------------------------------------ every kind of entity
\* The view sets keep their entities apart: a behaviour sends its requests to
\* the view sets and admin pages of one kind of entity, chosen at the start.
InitEach ==
    \/ InitSession
    \/ InitGoal
    \/ InitMatch
    \/ InitApp
    \/ InitAssign
    \/ InitProgram

NextEach ==
    \/ scope = "sessions" /\ NextSession
    \/ scope = "goals" /\ NextGoal
    \/ scope = "matches" /\ NextMatch
    \/ scope = "applications" /\ NextApp
    \/ scope = "assignments" /\ NextAssign
    \/ scope = "programs" /\ NextProgram

SpecEach == InitEach /\ [][NextEach]_vars

\* ------------------------------------------------------- concurrent requests
\* Several requests are handled at once.  Each database read and each database
\* write of a handler is one step; what a handler computes in memory between
\* them belongs to the step of the read before it.  proc[p].loc holds the
\* model instances the handler loaded.

Done(p, resp) == [proc EXCEPT ![p].pc = "done", ![p].resp = resp]
Goto(p, pc, loc) == [proc EXCEPT ![p].pc = pc, ![p].loc = loc]

\* the requests that arrive: the mentor completes a session or reports goal
\* progress, a user applies, the supervisor completes an assignment
ConcurrentRequests ==
    {[kind |-> "session_complete", target |-> s, actor |-> "ann"] : s \in Sessions}
    \cup {[kind |-> "update_progress", target |-> g, actor |-> "ann", data |-> Num(100)] :
             g \in Goals}
    \cup {[kind |-> k, target |-> u, actor |-> u, data_ok |-> TRUE, mail_ok |-> m] :
             k \in {"m_apply", "v_apply"}, u \in {"bob", "zed", "sam"},
             m \in BOOLEAN}
    \cup {[kind |-> "assignment_complete", target |-> a, actor |-> "ann"] :
             a \in Assignments}

Begin(p, req) ==
    /\ proc[p].pc = "idle"
    /\ proc' = [proc EXCEPT ![p] =
          [pc |-> req.kind, req |-> req, loc |-> <<>>, resp |-> 0]]
    /\ UNCHANGED <<apart, now, last, mentorship, program, opportunity, application,
                   assignment>>

\* --- MentorshipSessionViewSet.complete
\* views.py:476, get_object
SC_get_object(p) ==
    LET r == proc[p].req IN
    /\ proc[p].pc = "session_complete"
    /\ proc' = IF r.target \notin SessionViewSet_get_queryset(r.actor)
               THEN Done(p, 404)
               ELSE Goto(p, "sc_check", [session |-> session[r.target]])
    /\ UNCHANGED <<apart, now, last, mentorship, program, opportunity, application,
                   assignment>>

\* views.py:479-497: session.match is loaded here, with its meetings_held
SC_check(p) ==
    LET r == proc[p].req
        loc == proc[p].loc
    IN
    /\ proc[p].pc = "sc_check"
    /\ proc' = IF match.mentor # r.actor /\ match.mentee # r.actor
               THEN Done(p, 403)
               ELSE IF Session_closed(loc.session.status)
               THEN Done(p, 400)
               ELSE Goto(p, "sc_save_match",
                         [session |-> session_completed(loc.session),
                          match |-> match])
    /\ UNCHANGED <<apart, now, last, mentorship, program, opportunity, application,
                   assignment>>

\* views.py:497-498, `session.match.meetings_held += 1` on the loaded match
meetings_after_complete(loaded, stored) == loaded.meetings_held + 1

SC_save_match(p) ==
    /\ proc[p].pc = "sc_save_match"
    /\ match' = [match EXCEPT !.meetings_held =
                    meetings_after_complete(proc[p].loc.match, match)]
    /\ proc' = Goto(p, "sc_save_session", proc[p].loc)
    /\ UNCHANGED <<apart, now, last, session, goal, roundtrip, program, opportunity,
                   application, assignment>>

\* views.py:500
SC_save_session(p) ==
    /\ proc[p].pc = "sc_save_session"
    /\ session' = [session EXCEPT ![proc[p].req.target] = proc[p].loc.session]
    /\ proc' = Done(p, 200)
    /\ UNCHANGED <<apart, now, last, match, goal, roundtrip, program, opportunity,
                   application, assignment>>

\* --- MentorshipGoalViewSet.update_progress
\* views.py:622
UP_get_object(p) ==
    LET r == proc[p].req IN
    /\ proc[p].pc = "update_progress"
    /\ proc' = IF r.target \notin GoalViewSet_get_queryset(r.actor)
               THEN Done(p, 404)
               ELSE Goto(p, "up_check", [goal |-> goal[r.target]])
    /\ UNCHANGED <<apart, now, last, mentorship, program, opportunity, application,
                   assignment>>

\* views.py:625-657: goal.match is loaded here, with its milestones_completed
UP_check(p) ==
    LET r == proc[p].req
        loc == proc[p].loc
    IN
    /\ proc[p].pc = "up_check"
    /\ proc' = IF match.mentor # r.actor /\ match.mentee # r.actor
               THEN Done(p, 403)
               ELSE IF ~progress_valid(r.data)
               THEN Done(p, 400)
               ELSE Goto(p, "up_save_goal",
                         [goal |-> goal_after_progress(loc.goal, r.data.v),
                          was |-> loc.goal,
                          match |-> match])
    /\ UNCHANGED <<apart, now, last, mentorship, program, opportunity, application,
                   assignment>>

\* views.py:659-662
UP_save_goal(p) ==
    LET loc == proc[p].loc IN
    /\ proc[p].pc = "up_save_goal"
    /\ goal' = [goal EXCEPT ![proc[p].req.target] = loc.goal]
    /\ proc' = IF goal_counts_milestone(loc.was, loc.goal)
               THEN Goto(p, "up_save_match", loc)
               ELSE Done(p, 200)
    /\ UNCHANGED <<apart, now, last, match, session, roundtrip, program, opportunity,
                   application, assignment>>

\* views.py:663-664, a read-then-set on the loaded match
UP_save_match(p) ==
    /\ proc[p].pc = "up_save_match"
    /\ match' = [match EXCEPT !.milestones_completed =
                    proc[p].loc.match.milestones_completed + 1]
    /\ proc' = Done(p, 200)
    /\ UNCHANGED <<apart, now, last, session, goal, roundtrip, program, opportunity,
                   application, assignment>>

\* --- MentorshipProgramViewSet.apply and VolunteerOpportunityViewSet.apply
ApplyKind(k) == IF k = "m_apply" THEN "mentorship" ELSE "volunteer"

\* mentorship/views.py:110-124, volunteer/views.py:94-108: get_object loads the
\* program / opportunity, with its applications_count
AP_get_object(p) ==
    LET r == proc[p].req
        accepting == IF r.kind = "m_apply"
                     THEN Program_is_accepting_applications
                     ELSE Opportunity_is_accepting_applications
        count == IF r.kind = "m_apply" THEN program.applications_count
                 ELSE opportunity.applications_count
    IN
    /\ proc[p].pc \in {"m_apply", "v_apply"}
    /\ proc' = IF ~accepting THEN Done(p, 400)
               ELSE Goto(p, "ap_existing", [applications_count |-> count])
    /\ UNCHANGED <<apart, now, last, mentorship, program, opportunity, application,
                   assignment>>

\* mentorship/views.py:126-146, volunteer/views.py:110-139: the 'already
\* applied' query and the serializer's validation
AP_existing(p) ==
    LET r == proc[p].req IN
    /\ proc[p].pc = "ap_existing"
    /\ proc' = IF \/ r.target \in Rows(ApplyKind(r.kind))
                  \/ (r.kind = "m_apply" /\ r.target \in program.mentors)
                  \/ ~r.data_ok
               THEN Done(p, 400)
               ELSE Goto(p, "ap_insert", proc[p].loc)
    /\ UNCHANGED <<apart, now, last, mentorship, program, opportunity, application,
                   assignment>>

\* the mutant has no database constraint
unique_together_violated_Never(kind, user) == FALSE

\* mentorship/models.py:180 and volunteer/models.py:243, unique_together: the
\* database refuses a second row for the pair
unique_together_violated(kind, user) == application[kind][user] # <<>>

\* mentorship/views.py:147, volunteer/views.py:140: serializer.save() inserts;
\* the IntegrityError of a refused insert is not caught and becomes a 500
AP_insert(p) ==
    LET r == proc[p].req
        kind == ApplyKind(r.kind)
    IN
    /\ proc[p].pc = "ap_insert"
    /\ IF unique_together_violated(kind, r.target)
       THEN /\ proc' = Done(p, 500)
            /\ UNCHANGED application
       ELSE /\ application' = [application EXCEPT ![kind][r.target] =
                                  Append(@, "draft")]
            /\ proc' = Goto(p, "ap_count", proc[p].loc)
    /\ UNCHANGED <<apart, now, last, mentorship, program, opportunity, assignment>>

\* mentorship/views.py:150-159, volunteer/views.py:143-152: the mail, then
\* applications_count set from the loaded value
AP_count(p) ==
    LET r == proc[p].req
        count == proc[p].loc.applications_count + 1
    IN
    /\ proc[p].pc = "ap_count"
    /\ IF ~r.mail_ok
       THEN /\ proc' = Done(p, 500)
            /\ UNCHANGED <<program, opportunity>>
       ELSE /\ proc' = Done(p, 201)
            /\ IF r.kind = "m_apply"
               THEN /\ program' = [program EXCEPT !.applications_count = count]
                    /\ UNCHANGED opportunity
               ELSE /\ opportunity' = [opportunity EXCEPT !.applications_count = count]
                    /\ UNCHANGED program
    /\ UNCHANGED <<apart, now, last, mentorship, application, assignment>>

\* volunteer/views.py:460-473
AC_get_object(p) ==
    LET r == proc[p].req IN
    /\ proc[p].pc = "assignment_complete"
    /\ proc' = IF r.target \notin AssignmentViewSet_get_queryset(r.actor)
               THEN Done(p, 404)
               ELSE IF assignment[r.target].supervisor # r.actor /\ ~is_staff(r.actor)
               THEN Done(p, 403)
               ELSE IF assignment[r.target].status # "active"
               THEN Done(p, 400)
               ELSE Goto(p, "ac_save", [assignment |-> assignment[r.target]])
    /\ UNCHANGED <<apart, now, last, mentorship, program, opportunity, application,
                   assignment>>

\* volunteer/views.py:475-477
AC_save(p) ==
    /\ proc[p].pc = "ac_save"
    /\ assignment' = [assignment EXCEPT ![proc[p].req.target] =
           [proc[p].loc.assignment EXCEPT !.status = "completed",
                                          !.actual_end_date = At(now)]]
    /\ proc' = Goto(p, "ac_load_opportunity", proc[p].loc)
    /\ UNCHANGED <<apart, now, last, mentorship, program, opportunity, application>>

\* volunteer/views.py:480, assignment.application.opportunity is loaded
AC_load_opportunity(p) ==
    /\ proc[p].pc = "ac_load_opportunity"
    /\ proc' = Goto(p, "ac_save_opportunity", [opportunity |-> opportunity])
    /\ UNCHANGED <<apart, now, last, mentorship, program, opportunity, application,
                   assignment>>

\* volunteer/views.py:485
AC_save_opportunity(p) ==
    /\ proc[p].pc = "ac_save_opportunity"
    /\ opportunity' = [opportunity EXCEPT !.positions_filled =
                          positions_after_complete(proc[p].loc.opportunity)]
    /\ proc' = Done(p, 200)
    /\ UNCHANGED <<apart, now, last, mentorship, program, application, assignment>>

\* model.save() raises when the database is unavailable (OperationalError):
\* the handler stops there with a 500.  No handler runs in transaction.atomic,
\* so what it saved before stays saved.
SaveSteps == {"sc_save_match", "sc_save_session", "up_save_goal",
              "up_save_match", "ap_insert", "ac_save", "ac_save_opportunity"}
save_fails(p) ==
    /\ proc[p].pc \in SaveSteps
    /\ proc' = Done(p, 500)
    /\ UNCHANGED <<apart, now, last, mentorship, program, opportunity,
                   application, assignment>>

\* active assignments of an opportunity that has some of its positions filled
InitConcurrent ==
    /\ now = 0
    /\ last = Request("none", 0, "none", 0, 0)
    /\ match = MentorshipMatch("ann", "bob")
    /\ session = [s \in Sessions |-> MentorshipSession("scheduled", NULL)]
    /\ goal = [g \in Goals |-> MentorshipGoal]
    /\ roundtrip = 0
    /\ program = MentorshipProgram
    /\ \E available \in 1..MaxPositions, filled \in 0..MaxPositions :
          /\ filled <= available
          /\ opportunity = VolunteerOpportunity(available, filled)
    /\ application = AcceptedApplications
    /\ assignment = ActiveAssignments
    /\ proc = [p \in Procs |-> Idle]
    /\ timelog = <<>>
    /\ programs = Program(NULL, {})
    /\ event = VolunteerEvent(NULL, 0, TRUE, NULL)
    /\ partnership = Partnership("identified", <<>>)
    /\ scope = "concurrent"

NextConcurrent ==
    \/ \E p \in Procs, req \in ConcurrentRequests : Begin(p, req)
    \/ \E p \in Procs : SC_get_object(p)
    \/ \E p \in Procs : SC_check(p)
    \/ \E p \in Procs : SC_save_match(p)
    \/ \E p \in Procs : SC_save_session(p)
    \/ \E p \in Procs : UP_get_object(p)
    \/ \E p \in Procs : UP_check(p)
    \/ \E p \in Procs : UP_save_goal(p)
    \/ \E p \in Procs : UP_save_match(p)
    \/ \E p \in Procs : AP_get_object(p)
    \/ \E p \in Procs : AP_existing(p)
    \/ \E p \in Procs : AP_insert(p)
    \/ \E p \in Procs : AP_count(p)
    \/ \E p \in Procs : AC_get_object(p)
    \/ \E p \in Procs : AC_save(p)
    \/ \E p \in Procs : AC_load_opportunity(p)
    \/ \E p \in Procs : AC_save_opportunity(p)
    \/ \E p \in Procs : save_fails(p)

SpecConcurrent == InitConcurrent /\ [][NextConcurrent]_vars

\* ------------------------------------------------- volunteer event register
\* `if event.max_attendees and ...`: None and 0 are both false in Python
Truthy(n) == IsSet(n) /\ Val(n) # 0

\* volunteer/views.py:671, `event.current_attendees += 1` on the loaded event
attendees_after_register(loaded, stored) == loaded.current_attendees + 1

\* a request starts; the handlers below take it from there
Register_begin(p, user, mail_ok) ==
    /\ proc[p].pc = "idle"
    /\ event.current_attendees < MaxCount
    /\ proc' = [proc EXCEPT ![p] =
          [pc |-> "register", loc |-> <<>>, resp |-> 0,
           req |-> [kind |-> "register", target |-> 0, actor |-> user,
                    mail_ok |-> mail_ok]]]
    /\ UNCHANGED <<apart, now, last, mentorship, program, opportunity, application,
                   assignment>>

\* volunteer/views.py:641-668: get_object loads the event, the checks read the
\* loaded copy
Register_get_object(p) ==
    /\ proc[p].pc = "register"
    /\ proc' = IF ~event.registration_required
               THEN Done(p, 400)
               ELSE IF /\ IsSet(event.registration_deadline)
                       /\ Val(event.registration_deadline) < now
               THEN Done(p, 400)
               ELSE IF /\ Truthy(event.max_attendees)
                       /\ event.current_attendees >= Val(event.max_attendees)
               THEN Done(p, 400)
               ELSE Goto(p, "register_save", [event |-> event])
    /\ UNCHANGED <<apart, now, last, mentorship, program, opportunity, application,
                   assignment>>

\* volunteer/views.py:671-672, save(update_fields=['current_attendees'])
Register_save(p) ==
    /\ proc[p].pc = "register_save"
    /\ event' = [event EXCEPT !.current_attendees =
                    attendees_after_register(proc[p].loc.event, event)]
    /\ proc' = Goto(p, "register_mail", proc[p].loc)
    /\ UNCHANGED <<now, last, mentorship, program, opportunity, application,
                   assignment, timelog, programs, scope, partnership>>

\* volunteer/views.py:675-677, send_mail(fail_silently=False), then the response
Register_mail(p) ==
    /\ proc[p].pc = "register_mail"
    /\ proc' = Done(p, IF proc[p].req.mail_ok THEN 200 ELSE 500)
    /\ UNCHANGED <<apart, now, last, mentorship, program, opportunity, application,
                   assignment>>

\* the response was sent; the worker takes the next request
Respond(p) ==
    /\ proc[p].pc = "done"
    /\ proc' = [proc EXCEPT ![p] = Idle]
    /\ UNCHANGED <<apart, now, last, mentorship, program, opportunity, application,
                   assignment>>

\* events as the admin creates them: with or without a capacity (0 included,
\* max_attendees is a PositiveIntegerField), with attendees within it
InitEvent ==
    /\ now = 0
    /\ last = Request("none", 0, "none", 0, 0)
    /\ match = MentorshipMatch("ann", "bob")
    /\ session = [s \in Sessions |-> MentorshipSession("scheduled", NULL)]
    /\ goal = [g \in Goals |-> MentorshipGoal]
    /\ roundtrip = 0
    /\ program = MentorshipProgram
    /\ opportunity = VolunteerOpportunity(1, 0)
    /\ application = NoApplications
    /\ assignment = <<>>
    /\ proc = [p \in Procs |-> Idle]
    /\ timelog = <<>>
    /\ programs = Program(NULL, {})
    /\ \E max \in {NULL} \cup {At(k) : k \in 0..MaxSeats},
          current \in 0..MaxSeats, required \in BOOLEAN,
          deadline \in {NULL, At(0)} :
          /\ IsSet(max) => current <= Val(max)
          /\ event = VolunteerEvent(max, current, required, deadline)
    /\ partnership = Partnership("identified", <<>>)
    /\ scope = "events"

NextEvent ==
    \/ Tick
    \/ \E p \in Procs, user \in {"bob", "zed"}, mail_ok \in BOOLEAN :
          Register_begin(p, user, mail_ok)
    \/ \E p \in Procs : Register_get_object(p)
    \/ \E p \in Procs : Register_save(p)
    \/ \E p \in Procs : Register_mail(p)
    \/ \E p \in Procs : Respond(p)

SpecEvent == InitEvent /\ [][NextEvent]_vars

\* ------------------------------------------- partnership opportunity convert
OpportunityStatus == {"identified", "researching", "contacted", "discussing",
                      "proposal", "negotiating", "won", "lost", "on_hold"}

\* partners/views.py:555-565: staff see every opportunity, others the ones
\* assigned to them
OpportunityViewSet_get_queryset(actor) ==
    is_staff(actor) \/ partnership.opportunity.assigned_to = actor

\* the PartnerOrganization convert_to_partner creates: no slug is given, so
\* the row gets the empty slug
ConvertedPartner == [slug |-> "", origin |-> "convert_to_partner"]

\* the mutant has no unique constraint on the slug
slug_is_free_Always(slug) == TRUE

\* partners/models.py:44, slug = SlugField(unique=True): the insert is refused
\* when a row with that slug exists
slug_is_free(slug) ==
    \A i \in DOMAIN partnership.organizations :
       partnership.organizations[i].slug # slug

Convert_begin(p, actor) ==
    /\ proc[p].pc = "idle"
    /\ proc' = [proc EXCEPT ![p] =
          [pc |-> "convert", loc |-> <<>>, resp |-> 0,
           req |-> [kind |-> "convert_to_partner", target |-> 0, actor |-> actor]]]
    /\ UNCHANGED <<apart, now, last, mentorship, program, opportunity, application,
                   assignment>>

\* partners/views.py:569-581: get_object loads the opportunity, the two
\* checks read the loaded copy
Convert_get_object(p) ==
    /\ proc[p].pc = "convert"
    /\ proc' = IF ~OpportunityViewSet_get_queryset(proc[p].req.actor)
               THEN Done(p, 404)
               ELSE IF partnership.opportunity.status # "won"
               THEN Done(p, 400)
               ELSE IF IsSet(partnership.opportunity.converted_partner)
               THEN Done(p, 400)
               ELSE Goto(p, "convert_create",
                         [opportunity |-> partnership.opportunity])
    /\ UNCHANGED <<apart, now, last, mentorship, program, opportunity, application,
                   assignment>>

\* partners/views.py:584-594, PartnerOrganization.objects.create; an
\* IntegrityError is not caught and ends the request with a 500
Convert_create(p) ==
    /\ proc[p].pc = "convert_create"
    /\ IF slug_is_free(ConvertedPartner.slug)
       THEN /\ partnership' = [partnership EXCEPT
                   !.organizations = Append(@, ConvertedPartner)]
            /\ proc' = Goto(p, "convert_save",
                  [opportunity |-> [proc[p].loc.opportunity EXCEPT
                      !.converted_partner =
                          At(Len(partnership.organizations) + 1)]])
       ELSE /\ proc' = Done(p, 500)
            /\ UNCHANGED partnership
    /\ UNCHANGED <<now, last, mentorship, program, opportunity, application,
                   assignment, timelog, programs, scope, event>>

\* partners/views.py:597-598, opportunity.save() writes every field of the
\* loaded copy
Convert_save(p) ==
    /\ proc[p].pc = "convert_save"
    /\ partnership' = [partnership EXCEPT !.opportunity = proc[p].loc.opportunity]
    /\ proc' = Done(p, 201)
    /\ UNCHANGED <<now, last, mentorship, program, opportunity, application,
                   assignment, timelog, programs, scope, event>>

\* partners/admin.py:489, list_editable: staff set the status column
OpportunityAdmin_list_editable(actor, st) ==
    /\ is_staff(actor)
    /\ partnership' = [partnership EXCEPT !.opportunity.status = st]
    /\ UNCHANGED <<now, last, mentorship, program, opportunity, application,
                   assignment, proc, timelog, programs, scope, event>>

\* an opportunity in any status, not converted; no partner exists, or one
\* that staff entered with its slug, or one that came from the conversion of
\* another opportunity
InitPartner ==
    /\ now = 0
    /\ last = Request("none", 0, "none", 0, 0)
    /\ match = MentorshipMatch("ann", "bob")
    /\ session = [s \in Sessions |-> MentorshipSession("scheduled", NULL)]
    /\ goal = [g \in Goals |-> MentorshipGoal]
    /\ roundtrip = 0
    /\ program = MentorshipProgram
    /\ opportunity = VolunteerOpportunity(1, 0)
    /\ application = NoApplications
    /\ assignment = <<>>
    /\ proc = [p \in Procs |-> Idle]
    /\ timelog = <<>>
    /\ programs = Program(NULL, {})
    /\ event = VolunteerEvent(NULL, 0, TRUE, NULL)
    /\ \E st \in OpportunityStatus,
          organizations \in {<<>>, <<[slug |-> "acme", origin |-> "admin"]>>,
                             <<[slug |-> "", origin |-> "another opportunity"]>>} :
          partnership = Partnership(st, organizations)
    /\ scope = "partners"

NextPartner ==
    \/ \E p \in Procs, actor \in Users : Convert_begin(p, actor)
    \/ \E p \in Procs : Convert_get_object(p)
    \/ \E p \in Procs : Convert_create(p)
    \/ \E p \in Procs : Convert_save(p)
    \/ \E p \in Procs : Respond(p)
    \/ \E actor \in Users, st \in OpportunityStatus :
          OpportunityAdmin_list_editable(actor, st)

SpecPartner == InitPartner /\ [][NextPartner]_vars

\* a step that handles a request (every step but Tick)
IsRequest == now' = now
Party(u) == u \in {match.mentor, match.mentee}

\* C1: complete called twice in sequence on one session by the mentor or mentee
\* of its match adds exactly 1 to meetings_held: the first call (on a session
\* that is neither completed nor cancelled) answers 200, completes the session
\* and adds 1; the next call on that session answers 400 and changes neither
\* the match nor the session.
C1_CompleteTwice ==
    [][\A s \in Sessions :
          (IsRequest /\ last'.op = "session_complete" /\ last'.target = s
             /\ Party(last'.actor))
          => IF last.op = "session_complete" /\ last.target = s /\ last.resp = 200
             THEN /\ last'.resp = 400
                  /\ match' = match
                  /\ session' = session
             ELSE ~Session_closed(session[s].status)
                  => /\ last'.resp = 200
                     /\ session'[s].status = "completed"
                     /\ match'.meetings_held = match.meetings_held + 1]_vars

\* the second complete of a session was rejected after the first one counted
C1_Witness ==
    /\ last.op = "session_complete" /\ last.resp = 400 /\ Party(last.actor)
    /\ session[last.target].status = "completed"
    /\ IsSet(session[last.target].actual_end)
    /\ match.meetings_held = 1

\* C2: milestones_completed grows exactly when update_progress makes the goal
\* reach completed: a successful call adds 1 if it moves the goal into
\* completed, and adds nothing when the goal already was completed (called
\* again with 100 or with any other valid value).
C2_MilestoneOnce ==
    [][\A g \in Goals :
          (IsRequest /\ last'.op = "update_progress" /\ last'.target = g
             /\ last'.resp = 200)
          => match'.milestones_completed = match.milestones_completed +
                (IF goal[g].status # "completed" /\ goal'[g].status = "completed"
                 THEN 1 ELSE 0)]_vars

\* status derived from a progress value
DerivedStatus(v) ==
    IF v = 0 THEN "not_started" ELSE IF v < 100 THEN "in_progress" ELSE "completed"

\* C8 as stated: after every successful update_progress(goal, v) the goal's
\* status is the one derived from v, whatever it was before (with start_date
\* set when in_progress and completion_date set when completed).
C8_StatusDerived ==
    (last.op = "update_progress" /\ last.resp = 200)
    => LET g == goal[last.target]
           v == last.arg.v
       IN /\ g.status = DerivedStatus(v)
          /\ (0 < v /\ v < 100) => IsSet(g.start_date)
          /\ v = 100 => IsSet(g.completion_date)

\* C8 amended: a successful update_progress(goal, v) stores v and gives status
\* in_progress with start_date set when 0 < v < 100, completed with
\* completion_date set when v = 100, and leaves the status as it was when
\* v = 0 (not_started only if the goal was not_started before).
C8_StatusDerivedUnlessZero ==
    [][\A g \in Goals :
          (IsRequest /\ last'.op = "update_progress" /\ last'.target = g
             /\ last'.resp = 200)
          => LET v == last'.arg.v
             IN /\ goal'[g].progress_percentage = v
                /\ v = 0 => goal'[g].status = goal[g].status
                /\ (0 < v /\ v < 100) => /\ goal'[g].status = "in_progress"
                                         /\ IsSet(goal'[g].start_date)
                /\ v = 100 => /\ goal'[g].status = "completed"
                              /\ goal'[g].completion_date = At(now)]_vars

\* progress was set back to 0 on a goal that had been started
C8_Witness ==
    /\ last.op = "update_progress" /\ last.resp = 200 /\ last.arg.v = 0
    /\ goal[last.target].status = "in_progress"
    /\ goal[last.target].progress_percentage = 0
    /\ IsSet(goal[last.target].start_date)
\* C6: an accept request by the mentor (who is not the mentee) is answered 403
\* and leaves the match as it was, whatever the match's status.
C6_MentorCannotAccept ==
    [][(IsRequest /\ last'.op = "accept" /\ last'.actor = match.mentor
          /\ last'.actor # match.mentee)
       => (last'.resp = 403 /\ match' = match)]_vars

\* the mentor tried to accept a proposed match and was refused
C6_Witness ==
    /\ last.op = "accept" /\ last.actor = match.mentor /\ last.resp = 403
    /\ match.status = "proposed"

\* C7: once propose, accept (mentee), start and complete (staff) were requested
\* in this order on a pending match, the match is completed with its four
\* timestamps set and in increasing order.
C7_RoundTrip ==
    roundtrip = 4
    => /\ match.status = "completed"
       /\ IsSet(match.proposed_at) /\ IsSet(match.accepted_at)
       /\ IsSet(match.started_at) /\ IsSet(match.completed_at)
       /\ Val(match.proposed_at) <= Val(match.accepted_at)
       /\ Val(match.accepted_at) <= Val(match.started_at)
       /\ Val(match.started_at) <= Val(match.completed_at)
WithdrawOp(kind) == IF kind = "mentorship" THEN "m_withdraw" ELSE "v_withdraw"

\* C9: for mentorship and volunteer applications alike, withdraw by the
\* applicant or staff on a draft application answers 200 and makes it
\* withdrawn; on an accepted application it answers 400 with a message naming
\* the Accepted status, and the application stays accepted.
C9_Withdraw ==
    [][\A kind \in Kinds, owner \in Users :
          (IsRequest /\ last'.op = WithdrawOp(kind) /\ last'.target = owner
             /\ owner \in Rows(kind)
             /\ (last'.actor = owner \/ is_staff(last'.actor)))
          => LET st == application[kind][owner][1]
                 st2 == application'[kind][owner][1]
             IN /\ st = "draft" => (last'.resp = 200 /\ st2 = "withdrawn")
                /\ st = "accepted" => /\ last'.resp = 400
                                      /\ last'.detail = "Accepted"
                                      /\ st2 = "accepted"]_vars

\* the applicant's withdrawal of an accepted application was refused
C9_Witness ==
    /\ last.op \in {"m_withdraw", "v_withdraw"}
    /\ last.actor = last.target
    /\ last.resp = 400 /\ last.detail = "Accepted"
    /\ \E kind \in Kinds : /\ last.op = WithdrawOp(kind)
                            /\ last.target \in Rows(kind)
                            /\ application[kind][last.target][1] = "accepted"

MatchTerminal == {"rejected", "completed", "terminated"}
SessionTerminal == {"completed", "cancelled"}
ApplicationTerminal == {"rejected", "withdrawn"}
AssignmentTerminal == {"completed", "terminated"}
LifecycleOps == {"m_withdraw", "v_withdraw", "accept", "reject", "start",
                 "session_complete", "session_cancel", "assignment_complete"}

\* C10: once an application is rejected or withdrawn, a match is rejected,
\* completed or terminated, a session is completed or cancelled, or an
\* assignment is completed or terminated, no lifecycle action (withdraw,
\* accept, reject, start, complete, cancel) changes its status.
C10_TerminalIsFinal ==
    [][(IsRequest /\ last'.op \in LifecycleOps)
       => /\ \A kind \in Kinds : \A u \in Rows(kind) :
                application[kind][u][1] \in ApplicationTerminal
                => application'[kind][u] = application[kind][u]
          /\ match.status \in MatchTerminal => match'.status = match.status
          /\ \A s \in Sessions :
                session[s].status \in SessionTerminal
                => session'[s].status = session[s].status
          /\ \A a \in DOMAIN assignment :
                assignment[a].status \in AssignmentTerminal
                => assignment'[a].status = assignment[a].status]_vars
\* C3: positions_filled never exceeds positions_available, whatever the
\* interleaving of the reads and writes of concurrent assignment completions.
C3_PositionsBound ==
    opportunity.positions_filled <= opportunity.positions_available

\* two assignments were completed and the opportunity is exactly full
C3_Witness ==
    /\ \E p \in Procs, q \in Procs :
          /\ p # q
          /\ proc[p].pc = "done" /\ proc[q].pc = "done"
          /\ proc[p].req.kind = "assignment_complete" /\ proc[p].resp = 200
          /\ proc[q].req.kind = "assignment_complete" /\ proc[q].resp = 200
          /\ proc[p].req.target # proc[q].req.target
    /\ opportunity.positions_filled = opportunity.positions_available

\* the finished apply requests of one user that passed every check but the
\* 'already applied' one (valid data, working mail, open window, not a mentor)
EligibleApplies(kind, u) ==
    {p \in Procs : /\ proc[p].pc = "done"
                   /\ proc[p].req.kind = kind /\ proc[p].req.target = u
                   /\ proc[p].req.data_ok /\ proc[p].req.mail_ok
                   /\ proc[p].loc # <<>>
                   /\ ~(kind = "m_apply" /\ u \in program.mentors)}

\* C4: of two concurrent apply requests for the same (user, opportunity) pair
\* exactly one answers 201 and the other a 4xx conflict error, and at most one
\* application is stored for the pair.
C4_ConcurrentApply ==
    \A kind \in {"m_apply", "v_apply"}, u \in Users :
       Cardinality(EligibleApplies(kind, u)) >= 2
       => /\ \E p \in EligibleApplies(kind, u) :
                /\ proc[p].resp = 201
                /\ \A q \in EligibleApplies(kind, u) \ {p} :
                      proc[q].resp \in 400..499
          /\ Len(application[ApplyKind(kind)][u]) <= 1

AllDone == \A p \in Procs : proc[p].pc = "done"
Succeeded(kind, resp) ==
    {p \in Procs : /\ proc[p].pc = "done" /\ proc[p].req.kind = kind
                   /\ proc[p].resp = resp}
DifferentEntities(P) ==
    \A p \in P, q \in P : p # q => proc[p].req.target # proc[q].req.target

\* C5: when the concurrent requests have all finished, a counter that
\* successful requests on different entities incremented has grown by their
\* number (by 2 for two requests): no increment is lost.
C5_NoLostUpdate ==
    AllDone
    => /\ DifferentEntities(Succeeded("session_complete", 200))
          => match.meetings_held = Cardinality(Succeeded("session_complete", 200))
       /\ DifferentEntities(Succeeded("update_progress", 200))
          => match.milestones_completed = Cardinality(Succeeded("update_progress", 200))
       /\ program.applications_count = Cardinality(Succeeded("m_apply", 201))
       /\ opportunity.applications_count = Cardinality(Succeeded("v_apply", 201))
\* C15: an application that exists still exists after every step: no
\* operation of the application endpoints removes a created application.
C15_NeverDeleted ==
    [][\A kind \in Kinds : Rows(kind) \subseteq Rows(kind)']_vars
\* C16: a program that has max_participants set never has more participants
\* than that, whatever applications are accepted.
C16_Capacity ==
    IsSet(programs.max_participants)
    => Cardinality(programs.participants) <= Val(programs.max_participants)
\* C11: in every reachable state every application, match, session, goal,
\* assignment and time log has a status declared in the enum of its kind.
C11_StatusInEnum ==
    /\ match.status \in MatchStatus
    /\ \A s \in Sessions : session[s].status \in SessionStatus
    /\ \A g \in Goals : goal[g].status \in GoalStatus
    /\ \A kind \in Kinds : \A u \in Users :
          \A i \in DOMAIN application[kind][u] :
             application[kind][u][i] \in ApplicationStatus(kind)
    /\ \A u \in Applicants : programs.applications[u] \in MApplicationStatus
    /\ \A a \in DOMAIN assignment : assignment[a].status \in AssignmentStatus
    /\ \A t \in TimeLogs : timelog[t].status \in LogStatus

\* a lifecycle action and an admin bulk action have written a status
C11_Witness ==
    /\ last.op = "approve_time_logs"
    /\ \E t \in TimeLogs : /\ timelog[t].status = "approved"
                            /\ assignment[timelog[t].assignment].status = "completed"

\* the authorization rule of each lifecycle action: who may perform it
Authorized(op, target, actor) ==
    CASE op \in {"accept", "reject"} -> actor = match.mentee
      [] op \in {"start", "session_complete", "session_cancel", "update_progress"} ->
            actor \in {match.mentor, match.mentee}
      [] op \in {"m_withdraw", "v_withdraw"} -> actor = target \/ is_staff(actor)
      [] op = "log_time" -> actor = assignment[target].applicant
      [] op = "assignment_complete" ->
            actor = assignment[target].supervisor \/ is_staff(actor)
      [] op \in {"timelog_approve", "timelog_reject"} ->
            actor = assignment[timelog[target].assignment].supervisor
               \/ is_staff(actor)
GuardedOps == {"accept", "reject", "start", "session_complete", "session_cancel",
               "update_progress", "m_withdraw", "v_withdraw", "log_time",
               "assignment_complete", "timelog_approve", "timelog_reject"}
\* the entity the request names exists and is one the actor can retrieve
Retrievable(op, target, actor) ==
    CASE op \in {"accept", "reject", "start", "session_complete",
                 "session_cancel", "update_progress"} ->
            is_staff(actor) \/ actor \in {match.mentor, match.mentee}
      [] op = "m_withdraw" ->
            target \in Rows("mentorship") /\ (is_staff(actor) \/ actor = target)
      [] op = "v_withdraw" ->
            target \in Rows("volunteer") /\ (is_staff(actor) \/ actor = target)
      [] op \in {"log_time", "assignment_complete"} ->
            /\ target \in DOMAIN assignment
            /\ \/ is_staff(actor)
               \/ actor \in {assignment[target].applicant,
                              assignment[target].supervisor}
      [] op \in {"timelog_approve", "timelog_reject"} ->
            /\ target \in TimeLogs
            /\ \/ is_staff(actor)
               \/ actor = timelog[target].volunteer
               \/ actor = assignment[timelog[target].assignment].supervisor
Entities == <<match, session, goal, program, opportunity, application,
              assignment, timelog, programs>>

C12_MailFailureSwallowed ==
    [][(IsRequest /\ last'.mail = "failed")
       => /\ last'.resp \in 200..299
          /\ last'.op = "accept" => match'.status = "accepted"
          /\ last'.op = "m_apply"
             => /\ last'.target \in Rows("mentorship")'
                /\ program'.applications_count = program.applications_count + 1
          /\ last'.op = "v_apply"
             => /\ last'.target \in Rows("volunteer")'
                /\ opportunity'.applications_count =
                      opportunity.applications_count + 1]_vars
\* the only request of its kind among those being handled
Alone(p) ==
    \A q \in Procs \ {p} :
       proc[q].pc = "idle" \/ proc[q].req.kind # proc[p].req.kind

\* C13: a complete request that failed with a 5xx because a store write
\* failed has persisted nothing: the session is not completed and
\* meetings_held was not incremented for it, the assignment is not completed.
C13_UnitOfWork ==
    \A p \in Procs :
       (proc[p].pc = "done" /\ proc[p].resp = 500 /\ Alone(p))
       => /\ proc[p].req.kind = "session_complete"
             => /\ session[proc[p].req.target].status # "completed"
                /\ match.meetings_held = 0
          /\ proc[p].req.kind = "assignment_complete"
             => assignment[proc[p].req.target].status # "completed"
\* C17: update_progress called by the mentor or the mentee with a missing,
\* non-numeric or out-of-range progress_percentage answers 400 and leaves the
\* goal and the match's milestones unchanged; after every update_progress
\* call each goal's progress_percentage lies in 0..100.
C17_ProgressValidated ==
    [][(IsRequest /\ last'.op = "update_progress")
       => /\ (/\ last'.actor \in {match.mentor, match.mentee}
               /\ \/ last'.arg.k # "num"
                  \/ last'.arg.v < 0
                  \/ last'.arg.v > 100)
             => (last'.resp = 400 /\ goal' = goal /\ match' = match)
          /\ \A g \in Goals : /\ 0 <= goal'[g].progress_percentage
                               /\ goal'[g].progress_percentage <= 100]_vars

\* a progress of 101 was refused on a goal that stands at 100
C17_Witness ==
    /\ last.op = "update_progress" /\ last.resp = 400
    /\ last.arg = Num(101)
    /\ goal[last.target].progress_percentage = 100
\* the declared transitions of a match
TransitionTable ==
    {<<"pending", "proposed">>, <<"proposed", "accepted">>,
     <<"proposed", "rejected">>, <<"accepted", "active">>,
     <<"active", "completed">>}

\* C18: a match's status changes only along the declared table; accept and
\* reject succeed only on a proposed match for the mentee, start only on an
\* accepted match for the mentor or the mentee; a party's request on a match
\* in another status answers 400 with the current status and leaves the
\* match as it was.
C18_TransitionTable ==
    [][/\ match'.status # match.status
          => <<match.status, match'.status>> \in TransitionTable
       /\ (IsRequest /\ last'.op \in {"accept", "reject"} /\ last'.resp = 200)
          => /\ match.status = "proposed"
             /\ last'.actor = match.mentee
             /\ match'.status = IF last'.op = "accept" THEN "accepted"
                                                       ELSE "rejected"
       /\ (IsRequest /\ last'.op = "start" /\ last'.resp = 200)
          => /\ match.status = "accepted"
             /\ last'.actor \in {match.mentor, match.mentee}
             /\ match'.status = "active"
       /\ (/\ IsRequest
           /\ \/ /\ last'.op \in {"accept", "reject"}
                 /\ last'.actor = match.mentee
                 /\ match.status # "proposed"
              \/ /\ last'.op = "start"
                 /\ last'.actor \in {match.mentor, match.mentee}
                 /\ match.status # "accepted")
          => /\ last'.resp = 400
             /\ last'.detail = MatchStatusDisplay(match.status)
             /\ match' = match]_vars
\* C19: each timestamp of a match is set exactly when its state has been
\* reached: after every step proposed_at is non-null iff it was non-null or
\* the match is now proposed, accepted_at likewise for accepted and
\* started_at for active; an active match has accepted_at and started_at set.
C19_TimestampIffReached ==
    [][/\ IsSet(match'.proposed_at)
          <=> (IsSet(match.proposed_at) \/ match'.status = "proposed")
       /\ IsSet(match'.accepted_at)
          <=> (IsSet(match.accepted_at) \/ match'.status = "accepted")
       /\ IsSet(match'.started_at)
          <=> (IsSet(match.started_at) \/ match'.status = "active")
       /\ match'.status = "active"
          => (IsSet(match'.accepted_at) /\ IsSet(match'.started_at))]_vars

\* C20: a timestamp of a match that is set keeps its value in every step.
C20_TimestampImmutable ==
    [][/\ IsSet(match.proposed_at) => match'.proposed_at = match.proposed_at
       /\ IsSet(match.accepted_at) => match'.accepted_at = match.accepted_at
       /\ IsSet(match.started_at) => match'.started_at = match.started_at]_vars
\* C21: the staff shortlist and accept operations move a program application
\* to shortlisted only from under_review and to accepted only from
\* shortlisted; an application in another status keeps it.
C21_DeclaredSource ==
    [][\A u \in Users :
          /\ (/\ IsRequest /\ last'.op = "p_shortlist_applications"
              /\ programs'.applications[u] # programs.applications[u])
             => /\ programs.applications[u] = "under_review"
                /\ programs'.applications[u] = "shortlisted"
          /\ (/\ IsRequest /\ last'.op = "accept_applications"
              /\ programs'.applications[u] # programs.applications[u])
             => /\ programs.applications[u] = "shortlisted"
                /\ programs'.applications[u] = "accepted"]_vars
\* C22: applications_count of the mentorship program and of the volunteer
\* opportunity equals the number of applications stored for it, whichever
\* way the applications were created.
C22_CountDerived ==
    /\ program.applications_count = Cardinality(Rows("mentorship"))
    /\ opportunity.applications_count = Cardinality(Rows("volunteer"))
\* C23: when the requests handled at once are all complete requests for one
\* session, none of them stopped by a failing store, and all have finished,
\* the match's meetings_held has grown from 0 to exactly 1.
C23_ConcurrentCompleteOnce ==
    (/\ AllDone
     /\ \E s \in Sessions :
           \A p \in Procs : /\ proc[p].req.kind = "session_complete"
                             /\ proc[p].req.target = s
                             /\ proc[p].resp # 500)
    => match.meetings_held = 1
\* the sessions of the match that are completed
CompletedSessions == {s \in Sessions : session[s].status = "completed"}

\* C24: complete and cancel on a completed or cancelled session answer 400
\* and change nothing, so every step changes meetings_held by the change of
\* the number of completed sessions (equal from 0 and no completed session
\* on); a completed session stays completed and a cancelled one cancelled.
C24_CountMatchesCompleted ==
    [][/\ match'.meetings_held - match.meetings_held
          = Cardinality(CompletedSessions') - Cardinality(CompletedSessions)
       /\ \A s \in Sessions :
             /\ session[s].status \in {"completed", "cancelled"}
                => session'[s] = session[s]
             /\ (/\ IsRequest
                 /\ last'.op \in {"session_complete", "session_cancel"}
                 /\ last'.target = s /\ Party(last'.actor)
                 /\ session[s].status \in {"completed", "cancelled"})
                => (last'.resp = 400 /\ match' = match)]_vars

\* cancel was refused on a session that complete had completed and counted
C24_Witness ==
    /\ last.op = "session_cancel" /\ last.resp = 400
    /\ session[last.target].status = "completed"
    /\ IsSet(session[last.target].actual_end)
    /\ match.meetings_held = Cardinality(CompletedSessions)
    /\ \E s \in Sessions : session[s].status = "cancelled"
\* C25: a successful complete sets the session's actual_end to the time of
\* the request; an unset actual_start becomes actual_end minus the default
\* duration, a set one is left as it was; both are non-null afterwards.
C25_Backfill ==
    [][\A s \in Sessions :
          (IsRequest /\ last'.op = "session_complete" /\ last'.target = s
             /\ last'.resp = 200)
          => /\ session'[s].actual_end = At(now)
             /\ IsSet(session[s].actual_start)
                => session'[s].actual_start = session[s].actual_start
             /\ ~IsSet(session[s].actual_start)
                => session'[s].actual_start = At(now - DefaultDuration)
             /\ IsSet(session'[s].actual_start)
             /\ IsSet(session'[s].actual_end)]_vars

\* a session without actual_start was completed and got the fallback start
C25_Witness ==
    /\ last.op = "session_complete" /\ last.resp = 200
    /\ session[last.target].actual_end = At(now)
    /\ session[last.target].actual_start = At(now - DefaultDuration)
    /\ now = 0
\* C26: assignment complete answers 200 only for an active assignment and
\* its supervisor or staff; it then makes the assignment completed with
\* actual_end_date set and raises positions_filled by at most 1; a complete
\* request on an assignment that is not active changes neither the
\* assignment nor positions_filled, so no assignment is counted twice.
C26_CompleteOnce ==
    [][\A a \in DOMAIN assignment :
          (IsRequest /\ last'.op = "assignment_complete" /\ last'.target = a)
          => /\ last'.resp = 200
                => /\ assignment[a].status = "active"
                   /\ (assignment[a].supervisor = last'.actor
                          \/ is_staff(last'.actor))
                   /\ assignment'[a].status = "completed"
                   /\ assignment'[a].actual_end_date = At(now)
                   /\ opportunity'.positions_filled - opportunity.positions_filled
                         \in {0, 1}
             /\ assignment[a].status # "active"
                => /\ last'.resp # 200
                   /\ assignment' = assignment
                   /\ opportunity' = opportunity]_vars

\* a second complete of a counted assignment was refused
C26_Witness ==
    /\ last.op = "assignment_complete" /\ last.resp = 400
    /\ may_complete(last.target, last.actor)
    /\ assignment[last.target].status = "completed"
    /\ IsSet(assignment[last.target].actual_end_date)
    /\ opportunity.positions_filled = 1
\* C27: every run of accept_applications ends without error, and after it
\* every application it accepted has the participant row of its applicant,
\* also when a participant for that (program, user) existed before.
C27_ParticipantOnce ==
    [][(IsRequest /\ last'.op = "accept_applications")
       => /\ last'.resp = 200
          /\ \A u \in last'.arg :
                /\ programs'.applications[u] = "accepted"
                /\ u \in programs'.participants]_vars
\* the half hours claimed by the first n time logs that belong to assignment
\* a and are not rejected
RECURSIVE ClaimedHalves(_, _)
ClaimedHalves(a, n) ==
    IF n = 0 THEN 0
    ELSE ClaimedHalves(a, n - 1)
         + (IF timelog[n].assignment = a /\ timelog[n].status # "rejected"
            THEN timelog[n].total_hours ELSE 0)

\* C28: every log_time, time log approve and time log reject request changes
\* hours_logged by exactly the change of the hours claimed by the
\* assignment's time logs that are not rejected (so the two stay equal from
\* 0 and no logs on), approve changes no hours, and hours_logged is never
\* negative.
C28_HoursAreSum ==
    [][(IsRequest /\ last'.op \in {"log_time", "timelog_approve", "timelog_reject"})
       => \A a \in DOMAIN assignment :
             /\ 2 * (assignment'[a].hours_logged - assignment[a].hours_logged)
                = ClaimedHalves(a, Len(timelog))' - ClaimedHalves(a, Len(timelog))
             /\ assignment'[a].hours_logged >= 0
             /\ last'.op = "timelog_approve"
                => assignment'[a].hours_logged = assignment[a].hours_logged]_vars
\* C29: an event that has max_attendees set never has more attendees than
\* that, whatever the interleaving of the register requests.
C29_AttendeesBound ==
    IsSet(event.max_attendees)
    => event.current_attendees <= Val(event.max_attendees)
\* the partners that convert_to_partner created for the opportunity
Converted ==
    {i \in DOMAIN partnership.organizations :
        partnership.organizations[i] = ConvertedPartner}

====
